---- MODULE Spec2Model ----
(***************************************************************************)
(* Q-Shield: quaternion arithmetic modulo a prime (utils/quaternionMath)   *)
(* and the conjugation "key exchange" session of components/SimulationLab. *)
(*                                                                         *)
(* Two specifications share the variables:                                 *)
(*   Spec      the simulator session: state, log and the four handlers;    *)
(*   SpecRing  the pure arithmetic functions applied to bounded inputs.    *)
(***************************************************************************)
EXTENDS Integers, Sequences, FiniteSets

VARIABLES
    state,      \* SimulationLab: useState<SimulationState>
    log,        \* SimulationLab: useState<string[]>, newest entry first
    ringIn,     \* arguments of a call of a quaternionMath function
    ringOut,    \* the function called and the value it returned
    gen,        \* generateKeys run step by step: its position and its locals
    chat,       \* AILab: input, loading, messages, the call of the service
                \* in flight, how many calls have not settled and
                \* process.env.API_KEY
    app         \* App: activeTab, and how many times SimulationLab was mounted

vars == <<state, log, ringIn, ringOut, gen, chat, app>>

(***************************************************************************)
(* Bounds of the model.                                                    *)
(***************************************************************************)
\* components of the quaternions handed to the pure functions: -1 .. MaxComp
MaxComp == 4
\* moduli handed to the pure functions: 1 .. MaxModulus
MaxModulus == 7
\* how many of the candidate outcomes of randomQuaternion are drawn from
NumDraws == 4
\* how many draws one resampling loop of generateKeys may take
MaxDraws == 2
\* how many entries the log may hold
MaxLog == 4
\* scalars handed to mod: -MaxScalar .. MaxScalar
MaxScalar == 20
\* how many times generateKeys is run step by step
MaxRuns == 1
\* how many messages the chat may hold
MaxMessages == 5
\* how many times SimulationLab may be mounted
MaxMounts == 2

(***************************************************************************)
(* Values.                                                                 *)
(***************************************************************************)
\* JavaScript null: a value different from every quaternion
null == [null |-> TRUE]

createQuaternion(w, x, y, z) == [w |-> w, x |-> x, y |-> y, z |-> z]

(***************************************************************************)
(* utils/quaternionMath                                                    *)
(***************************************************************************)
\* the JavaScript remainder n % m for m > 0: truncating, it takes the sign of n
jsRem(n, m) == IF n >= 0 THEN n % m ELSE -((-n) % m)

\* Math.floor(a / b) for b # 0
floorDiv(a, b) ==
    IF b > 0 THEN a \div b ELSE (-a) \div (-b)

modTruncating(n, m) == jsRem(n, m)

mod(n, m) == jsRem(jsRem(n, m) + m, m)

\* the while loop of modInverse: returns old_s once r = 0
RECURSIVE modInverseLoop(_, _, _, _, _, _)
modInverseLoop(old_r, r, old_s, s, old_t, t) ==
    IF r = 0 THEN old_s
    ELSE LET quotient == floorDiv(old_r, r)
         IN  modInverseLoop(r, old_r - quotient * r,
                            s, old_s - quotient * s,
                            t, old_t - quotient * t)

modInverseRaw(a, m) == modInverseLoop(a, m, 1, 0, 0, 1)

modInverse(a, m) == mod(modInverseLoop(a, m, 1, 0, 0, 1), m)

addQTruncating(q1, q2, modulus) ==
    IF modulus # 0
    THEN [w |-> jsRem(q1.w + q2.w, modulus),
          x |-> jsRem(q1.x + q2.x, modulus),
          y |-> jsRem(q1.y + q2.y, modulus),
          z |-> jsRem(q1.z + q2.z, modulus)]
    ELSE [w |-> q1.w + q2.w,
          x |-> q1.x + q2.x,
          y |-> q1.y + q2.y,
          z |-> q1.z + q2.z]

\* an optional modulus is absent (undefined) or 0 exactly when it is falsy;
\* the model writes both as 0
addQ(q1, q2, modulus) ==
    IF modulus # 0
    THEN [w |-> mod(q1.w + q2.w, modulus),
          x |-> mod(q1.x + q2.x, modulus),
          y |-> mod(q1.y + q2.y, modulus),
          z |-> mod(q1.z + q2.z, modulus)]
    ELSE [w |-> q1.w + q2.w,
          x |-> q1.x + q2.x,
          y |-> q1.y + q2.y,
          z |-> q1.z + q2.z]

mulQSymmetric(q1, q2, modulus) ==
    LET w == q1.w * q2.w - q1.x * q2.x - q1.y * q2.y - q1.z * q2.z
        x == q1.w * q2.x + q1.x * q2.w + q1.y * q2.z + q1.z * q2.y
        y == q1.w * q2.y + q1.x * q2.z + q1.y * q2.w + q1.z * q2.x
        z == q1.w * q2.z + q1.x * q2.y + q1.y * q2.x + q1.z * q2.w
    IN  IF modulus # 0
        THEN [w |-> mod(w, modulus), x |-> mod(x, modulus),
              y |-> mod(y, modulus), z |-> mod(z, modulus)]
        ELSE [w |-> w, x |-> x, y |-> y, z |-> z]

mulQSignSlip(q1, q2, modulus) ==
    LET w == q1.w * q2.w - q1.x * q2.x - q1.y * q2.y - q1.z * q2.z
        x == q1.w * q2.x + q1.x * q2.w + q1.y * q2.z - q1.z * q2.y
        y == q1.w * q2.y + q1.x * q2.z + q1.y * q2.w + q1.z * q2.x
        z == q1.w * q2.z + q1.x * q2.y - q1.y * q2.x + q1.z * q2.w
    IN  IF modulus # 0
        THEN [w |-> mod(w, modulus), x |-> mod(x, modulus),
              y |-> mod(y, modulus), z |-> mod(z, modulus)]
        ELSE [w |-> w, x |-> x, y |-> y, z |-> z]

mulQCommuted(q1, q2, modulus) ==
    LET w == q1.w * q2.w - q1.x * q2.x - q1.y * q2.y - q1.z * q2.z
        x == q1.w * q2.x + q1.x * q2.w - q1.y * q2.z + q1.z * q2.y
        y == q1.w * q2.y + q1.x * q2.z + q1.y * q2.w - q1.z * q2.x
        z == q1.w * q2.z - q1.x * q2.y + q1.y * q2.x + q1.z * q2.w
    IN  IF modulus # 0
        THEN [w |-> mod(w, modulus), x |-> mod(x, modulus),
              y |-> mod(y, modulus), z |-> mod(z, modulus)]
        ELSE [w |-> w, x |-> x, y |-> y, z |-> z]

\* Hamilton product
mulQ(q1, q2, modulus) ==
    LET w == q1.w * q2.w - q1.x * q2.x - q1.y * q2.y - q1.z * q2.z
        x == q1.w * q2.x + q1.x * q2.w + q1.y * q2.z - q1.z * q2.y
        y == q1.w * q2.y - q1.x * q2.z + q1.y * q2.w + q1.z * q2.x
        z == q1.w * q2.z + q1.x * q2.y - q1.y * q2.x + q1.z * q2.w
    IN  IF modulus # 0
        THEN [w |-> mod(w, modulus), x |-> mod(x, modulus),
              y |-> mod(y, modulus), z |-> mod(z, modulus)]
        ELSE [w |-> w, x |-> x, y |-> y, z |-> z]

conjugateQ(q, modulus) ==
    IF modulus # 0
    THEN [w |-> mod(q.w, modulus),
          x |-> mod(-q.x, modulus),
          y |-> mod(-q.y, modulus),
          z |-> mod(-q.z, modulus)]
    ELSE [w |-> q.w, x |-> -q.x, y |-> -q.y, z |-> -q.z]

normSqQ(q, modulus) ==
    LET val == q.w * q.w + q.x * q.x + q.y * q.y + q.z * q.z
    IN  IF modulus # 0 THEN mod(val, modulus) ELSE val

\* the number n / d of the branch without a modulus: an integer when d divides
\* n, otherwise the fraction itself
quotientOf(n, d) ==
    IF jsRem(n, d) = 0 THEN floorDiv(n, d) ELSE [num |-> n, den |-> d]

invQUnreducedNorm(q, modulus) ==
    LET nSq == normSqQ(q, 0)
    IN  IF nSq = 0 THEN null
        ELSE LET nSqInv == modInverse(nSq, modulus)
                 conj   == conjugateQ(q, modulus)
             IN  [w |-> mod(conj.w * nSqInv, modulus),
                  x |-> mod(conj.x * nSqInv, modulus),
                  y |-> mod(conj.y * nSqInv, modulus),
                  z |-> mod(conj.z * nSqInv, modulus)]

invQNoConjugate(q, modulus) ==
    LET nSq == normSqQ(q, modulus)
    IN  IF nSq = 0 THEN null
        ELSE LET nSqInv == modInverse(nSq, modulus)
             IN  [w |-> mod(q.w * nSqInv, modulus),
                  x |-> mod(q.x * nSqInv, modulus),
                  y |-> mod(q.y * nSqInv, modulus),
                  z |-> mod(q.z * nSqInv, modulus)]

\* modInverse has no throw statement and its loop ends for 0 < nSq < modulus,
\* so the catch branch of invQ (return null) is never taken
invQ(q, modulus) ==
    LET nSq == normSqQ(q, modulus)
    IN  IF nSq = 0 THEN null
        ELSE IF modulus # 0
        THEN LET nSqInv == modInverse(nSq, modulus)
                 conj   == conjugateQ(q, modulus)
             IN  [w |-> mod(conj.w * nSqInv, modulus),
                  x |-> mod(conj.x * nSqInv, modulus),
                  y |-> mod(conj.y * nSqInv, modulus),
                  z |-> mod(conj.z * nSqInv, modulus)]
        ELSE LET conj == conjugateQ(q, 0)
             IN  [w |-> quotientOf(conj.w, nSq),
                  x |-> quotientOf(conj.x, nSq),
                  y |-> quotientOf(conj.y, nSq),
                  z |-> quotientOf(conj.z, nSq)]

\* the options of the modulus <select>
ModulusOptions == {13, 251, 1009}

\* randomQuaternion(max) returns four integers of [0, max); the model draws
\* its outcome from the first NumDraws of these candidates
zeroNormQuaternion(max) ==
    CASE max = 13   -> createQuaternion(2, 3, 0, 0)
      [] max = 251  -> createQuaternion(15, 5, 1, 0)
      [] max = 1009 -> createQuaternion(28, 15, 0, 0)
      [] OTHER      -> createQuaternion(0, 0, 0, 0)

DrawList(max) ==
    << createQuaternion(0, 0, 0, 0),
       createQuaternion(3, max - 1, max - 1, max - 1),
       createQuaternion(2, 1, 0, 1),
       createQuaternion(1, 0, 0, 0),
       zeroNormQuaternion(max),
       createQuaternion(1, 2, 3, 4),
       createQuaternion(1, 3, 1, 0) >>

InRange(q, max) ==
    /\ q.w \in 0 .. (max - 1)
    /\ q.x \in 0 .. (max - 1)
    /\ q.y \in 0 .. (max - 1)
    /\ q.z \in 0 .. (max - 1)

randomQuaternionFloorFirst(max) == { createQuaternion(0, 0, 0, 0) }

randomQuaternion(max) ==
    { q \in { DrawList(max)[i] : i \in 1 .. NumDraws } : InRange(q, max) }

(***************************************************************************)
(* components/SimulationLab                                                *)
(***************************************************************************)
INITIAL_STATEUninvertible ==
    [modulus       |-> 13,
     baseP         |-> createQuaternion(1, 2, 3, 4),
     aliceSecret   |-> createQuaternion(2, 1, 0, 1),
     bobSecret     |-> createQuaternion(1, 2, 2, 2),
     alicePublic   |-> null,
     bobPublic     |-> null,
     sharedSecretA |-> null,
     sharedSecretB |-> null]

INITIAL_STATE ==
    [modulus       |-> 13,
     baseP         |-> createQuaternion(1, 2, 3, 4),
     aliceSecret   |-> createQuaternion(2, 1, 0, 1),
     bobSecret     |-> createQuaternion(1, 3, 1, 0),
     alicePublic   |-> null,
     bobPublic     |-> null,
     sharedSecretA |-> null,
     sharedSecretB |-> null]

\* the messages handed to addLog (the time stamp in front is left out)
LogGenerated == "Generated new parameters and private keys."
LogNonInvertible == "Error: Generated non-invertible secrets. Regenerating..."
LogExchanged == "Public values computed and exchanged via Conjugation."
LogShared == "Shared values computed."
LogCheckYes == "Check: Are they equal? YES"
LogCheckNo == "Check: Are they equal? NO (Expected for non-commutative)"

addLog(lg, msg) == <<msg>> \o lg

\* let q = randomQuaternion(mod); while (!invQ(q, mod)) q = randomQuaternion(mod);
\* run on the draws cur, rest[1], rest[2], ...: the secret the loop exits with
\* and the draws it did not take, or running when it exhausts them
resampleFirstDraw(cur, rest, modulus) ==
    [exited |-> TRUE, value |-> cur, unused |-> rest]

RECURSIVE resample(_, _, _)
resample(cur, rest, modulus) ==
    IF invQ(cur, modulus) # null
    THEN [exited |-> TRUE, value |-> cur, unused |-> rest]
    ELSE IF rest = <<>>
    THEN [exited |-> FALSE, value |-> null, unused |-> rest]
    ELSE resample(Head(rest), Tail(rest), modulus)

\* the draws of one run of a resampling loop: it exits on the last of them
LoopRuns(modulus) ==
    LET draws == randomQuaternion(modulus)
        seqs  == UNION { [1 .. n -> draws] : n \in 1 .. MaxDraws }
    IN  { s \in seqs :
            LET r == resample(Head(s), Tail(s), modulus)
            IN  r.exited /\ r.unused = <<>> }

\* the outcomes of the random source during one generateKeys, for each
\* modulus the session can have
RandomOutcomes ==
    [modulus \in ModulusOptions |->
        { [base |-> b, alice |-> a, bob |-> c] :
            b \in randomQuaternion(modulus),
            a \in LoopRuns(modulus),
            c \in LoopRuns(modulus) }]

\* generateKeys up to its setState: the base and the two secrets it sampled
sampleKeys(modulus, rnd) ==
    LET base     == rnd.base
        aliceSec == resample(Head(rnd.alice), Tail(rnd.alice), modulus).value
        bobSec   == resample(Head(rnd.bob), Tail(rnd.bob), modulus).value
    IN  [base |-> base, aliceSec |-> aliceSec, bobSec |-> bobSec]

\* what generateKeys can have sampled when it reaches its setState, for each
\* modulus the session can have
SampledKeys ==
    [modulus \in ModulusOptions |->
        { sampleKeys(modulus, rnd) : rnd \in RandomOutcomes[modulus] }]

generateKeysKeepDerived(st, lg, keys) ==
    [state |-> [st EXCEPT !.baseP = keys.base,
                          !.aliceSecret = keys.aliceSec,
                          !.bobSecret = keys.bobSec],
     log   |-> addLog(lg, LogGenerated)]

\* generateKeys from its setState on, keys being what it sampled
generateKeys(st, lg, keys) ==
    [state |-> [st EXCEPT !.baseP = keys.base,
                          !.aliceSecret = keys.aliceSec,
                          !.bobSecret = keys.bobSec,
                          !.alicePublic = null,
                          !.bobPublic = null,
                          !.sharedSecretA = null,
                          !.sharedSecretB = null],
     log   |-> addLog(lg, LogGenerated)]

performExchangeRightInverse(st, lg, keys) ==
    LET aliceInv == invQ(st.aliceSecret, st.modulus)
        bobInv   == invQ(st.bobSecret, st.modulus)
    IN  IF aliceInv = null \/ bobInv = null
        THEN generateKeys(st, addLog(lg, LogNonInvertible), keys)
        ELSE [state |-> [st EXCEPT
                  !.alicePublic = mulQ(aliceInv, mulQ(st.baseP, st.aliceSecret, st.modulus), st.modulus),
                  !.bobPublic = mulQ(bobInv, mulQ(st.baseP, st.bobSecret, st.modulus), st.modulus)],
              log   |-> addLog(lg, LogExchanged)]

performExchangeNoRecovery(st, lg, keys) ==
    LET aliceInv == invQ(st.aliceSecret, st.modulus)
        bobInv   == invQ(st.bobSecret, st.modulus)
    IN  IF aliceInv = null \/ bobInv = null
        THEN [state |-> st, log |-> addLog(lg, LogNonInvertible)]
        ELSE [state |-> [st EXCEPT
                  !.alicePublic = mulQ(mulQ(st.aliceSecret, st.baseP, st.modulus), aliceInv, st.modulus),
                  !.bobPublic = mulQ(mulQ(st.bobSecret, st.baseP, st.modulus), bobInv, st.modulus)],
              log   |-> addLog(lg, LogExchanged)]

performExchangeNoInverse(st, lg, keys) ==
    LET aliceInv == invQ(st.aliceSecret, st.modulus)
        bobInv   == invQ(st.bobSecret, st.modulus)
    IN  IF aliceInv = null \/ bobInv = null
        THEN generateKeys(st, addLog(lg, LogNonInvertible), keys)
        ELSE [state |-> [st EXCEPT
                            !.alicePublic = mulQ(st.aliceSecret, st.baseP, st.modulus),
                            !.bobPublic = mulQ(st.bobSecret, st.baseP, st.modulus)],
              log   |-> addLog(lg, LogExchanged)]

performExchange(st, lg, keys) ==
    LET baseP       == st.baseP
        aliceSecret == st.aliceSecret
        bobSecret   == st.bobSecret
        modulus     == st.modulus
        aliceInv    == invQ(aliceSecret, modulus)
        bobInv      == invQ(bobSecret, modulus)
    IN  IF aliceInv = null \/ bobInv = null
        THEN generateKeys(st, addLog(lg, LogNonInvertible), keys)
        ELSE LET alicePub == mulQ(mulQ(aliceSecret, baseP, modulus), aliceInv, modulus)
                 bobPub   == mulQ(mulQ(bobSecret, baseP, modulus), bobInv, modulus)
             IN  [state |-> [st EXCEPT !.alicePublic = alicePub,
                                       !.bobPublic = bobPub],
                  log   |-> addLog(lg, LogExchanged)]

computeSharedSecretSwapped(st, lg) ==
    LET aliceInv == invQ(st.aliceSecret, st.modulus)
        bobInv   == invQ(st.bobSecret, st.modulus)
    IN  IF st.alicePublic = null \/ st.bobPublic = null
        THEN [state |-> st, log |-> lg]
        ELSE IF aliceInv = null \/ bobInv = null
        THEN [state |-> st, log |-> lg]
        ELSE LET kA == mulQ(mulQ(st.aliceSecret, st.bobPublic, st.modulus), aliceInv, st.modulus)
                 kB == mulQ(mulQ(st.bobSecret, st.alicePublic, st.modulus), bobInv, st.modulus)
             IN  [state |-> [st EXCEPT !.sharedSecretA = kB,
                                       !.sharedSecretB = kA],
                  log   |-> addLog(addLog(lg, LogShared),
                                   IF kA = kB THEN LogCheckYes ELSE LogCheckNo)]

computeSharedSecretInverseFirst(st, lg) ==
    LET aliceInv == invQ(st.aliceSecret, st.modulus)
        bobInv   == invQ(st.bobSecret, st.modulus)
    IN  IF st.alicePublic = null \/ st.bobPublic = null
        THEN [state |-> st, log |-> lg]
        ELSE IF aliceInv = null \/ bobInv = null
        THEN [state |-> st, log |-> lg]
        ELSE LET kA == mulQ(mulQ(st.aliceSecret, st.bobPublic, st.modulus), aliceInv, st.modulus)
                 kB == mulQ(mulQ(bobInv, st.alicePublic, st.modulus), st.bobSecret, st.modulus)
             IN  [state |-> [st EXCEPT !.sharedSecretA = kA,
                                       !.sharedSecretB = kB],
                  log   |-> addLog(addLog(lg, LogShared),
                                   IF kA = kB THEN LogCheckYes ELSE LogCheckNo)]

computeSharedSecretDefaultPublic(st, lg) ==
    LET alicePublic == IF st.alicePublic = null THEN st.baseP ELSE st.alicePublic
        bobPublic   == IF st.bobPublic = null THEN st.baseP ELSE st.bobPublic
        aliceInv    == invQ(st.aliceSecret, st.modulus)
        bobInv      == invQ(st.bobSecret, st.modulus)
    IN  IF aliceInv = null \/ bobInv = null
        THEN [state |-> st, log |-> lg]
        ELSE LET kA == mulQ(mulQ(st.aliceSecret, bobPublic, st.modulus), aliceInv, st.modulus)
                 kB == mulQ(mulQ(st.bobSecret, alicePublic, st.modulus), bobInv, st.modulus)
             IN  [state |-> [st EXCEPT !.sharedSecretA = kA,
                                       !.sharedSecretB = kB],
                  log   |-> addLog(addLog(lg, LogShared),
                                   IF kA = kB THEN LogCheckYes ELSE LogCheckNo)]

computeSharedSecretOwnPublic(st, lg) ==
    LET aliceInv == invQ(st.aliceSecret, st.modulus)
        bobInv   == invQ(st.bobSecret, st.modulus)
    IN  IF st.alicePublic = null \/ st.bobPublic = null
        THEN [state |-> st, log |-> lg]
        ELSE IF aliceInv = null \/ bobInv = null
        THEN [state |-> st, log |-> lg]
        ELSE LET kA == mulQ(mulQ(st.aliceSecret, st.alicePublic, st.modulus), aliceInv, st.modulus)
                 kB == mulQ(mulQ(st.bobSecret, st.bobPublic, st.modulus), bobInv, st.modulus)
             IN  [state |-> [st EXCEPT !.sharedSecretA = kA,
                                       !.sharedSecretB = kB],
                  log   |-> addLog(addLog(lg, LogShared),
                                   IF kA = kB THEN LogCheckYes ELSE LogCheckNo)]

computeSharedSecret(st, lg) ==
    LET aliceSecret == st.aliceSecret
        bobSecret   == st.bobSecret
        alicePublic == st.alicePublic
        bobPublic   == st.bobPublic
        modulus     == st.modulus
        aliceInv    == invQ(aliceSecret, modulus)
        bobInv      == invQ(bobSecret, modulus)
    IN  IF alicePublic = null \/ bobPublic = null
        THEN [state |-> st, log |-> lg]
        ELSE IF aliceInv = null \/ bobInv = null
        THEN [state |-> st, log |-> lg]
        ELSE LET kA == mulQ(mulQ(aliceSecret, bobPublic, modulus), aliceInv, modulus)
                 kB == mulQ(mulQ(bobSecret, alicePublic, modulus), bobInv, modulus)
             IN  [state |-> [st EXCEPT !.sharedSecretA = kA,
                                       !.sharedSecretB = kB],
                  \* JSON.stringify(kA) === JSON.stringify(kB): both list w, x, y, z
                  log   |-> addLog(addLog(lg, LogShared),
                                   IF kA = kB THEN LogCheckYes ELSE LogCheckNo)]

selectModulusResets(st, value) ==
    [st EXCEPT !.modulus = value,
               !.alicePublic = null,
               !.bobPublic = null,
               !.sharedSecretA = null,
               !.sharedSecretB = null]

selectModulusReduces(st, value) ==
    [st EXCEPT !.modulus = value,
               !.baseP = [w |-> mod(@.w, value), x |-> mod(@.x, value),
                          y |-> mod(@.y, value), z |-> mod(@.z, value)],
               !.aliceSecret = [w |-> mod(@.w, value), x |-> mod(@.x, value),
                                y |-> mod(@.y, value), z |-> mod(@.z, value)],
               !.bobSecret = [w |-> mod(@.w, value), x |-> mod(@.x, value),
                              y |-> mod(@.y, value), z |-> mod(@.z, value)]]

\* onChange of the modulus <select>: setState({ ...state, modulus: parseInt(value) })
selectModulus(st, value) == [st EXCEPT !.modulus = value]

\* the match indicator of the result panel
secretsMatch(st) ==
    /\ st.sharedSecretA # null
    /\ st.sharedSecretB # null
    /\ st.sharedSecretA.w = st.sharedSecretB.w
    /\ st.sharedSecretA.x = st.sharedSecretB.x
    /\ st.sharedSecretA.y = st.sharedSecretB.y
    /\ st.sharedSecretA.z = st.sharedSecretB.z

(***************************************************************************)
(* The session: one action per handler, enabled as its control is.         *)
(***************************************************************************)
RingIdle == [q1 |-> createQuaternion(0, 0, 0, 0),
             q2 |-> createQuaternion(0, 0, 0, 0),
             q3 |-> createQuaternion(0, 0, 0, 0), n |-> 0, m |-> 1]

NotCalled == [op |-> "none", val |-> null]

\* generateKeys is not running
GenIdle == [pc |-> "idle", mod |-> 0, base |-> null, aliceSec |-> null,
            bobSec |-> null]

\* no call of generateTutorResponse is in flight
NoCall == [at |-> "none"]

WelcomeText == "Hello! I am your Quaternionic Cryptography Research Assistant. Ask me about the Quaternion Conjugacy Search Problem (QCSP), why quaternions resist Shor's algorithm, or how to implement modular arithmetic for QKE."

\* the useState initial values of AILab (ids and time stamps are left out)
AILabInitial(apiKey) ==
    [input    |-> "",
     loading  |-> FALSE,
     messages |-> << [role |-> "model", text |-> WelcomeText] >>,
     call     |-> NoCall,
     requests |-> 0,
     apiKey   |-> apiKey]

\* the state of a component that is not mounted: there is none; of AILab the
\* environment stays
Unmounted == [unmounted |-> TRUE]

AILabUnmounted(apiKey) == [unmounted |-> TRUE, apiKey |-> apiKey]

\* App with the given tab active since it was started
AppShowing(tab) ==
    [activeTab |-> tab, mounts |-> IF tab = "SIMULATION" THEN 1 ELSE 0]

Init ==
    /\ state = INITIAL_STATE
    /\ log = <<>>
    /\ ringIn = RingIdle
    /\ ringOut = NotCalled
    /\ gen = GenIdle
    /\ chat = AILabUnmounted("")
    /\ app = AppShowing("SIMULATION")

exchangeEnabledAlways(st) == TRUE

\* "Exchange Public Values": disabled={!!state.alicePublic}
exchangeEnabled(st) == st.alicePublic = null

\* "Derive Shared Secret": disabled={!state.alicePublic || !!state.sharedSecretA}
deriveEnabled(st) == st.alicePublic # null /\ st.sharedSecretA = null

\* "Regenerate Secrets"
GenerateKeys ==
    /\ \E keys \in SampledKeys[state.modulus] :
          LET r == generateKeys(state, log, keys)
          IN  /\ Len(r.log) <= MaxLog
              /\ state' = r.state
              /\ log' = r.log
    /\ UNCHANGED <<ringIn, ringOut, gen, chat, app>>

\* what generateKeys samples when performExchange does not call it
NotSampled == [base |-> null, aliceSec |-> null, bobSec |-> null]

\* "Exchange Public Values"
PerformExchange ==
    /\ exchangeEnabled(state)
    /\ \E keys \in (IF \/ invQ(state.aliceSecret, state.modulus) = null
                      \/ invQ(state.bobSecret, state.modulus) = null
                   THEN SampledKeys[state.modulus]
                   ELSE {NotSampled}) :
          LET r == performExchange(state, log, keys)
          IN  /\ Len(r.log) <= MaxLog
              /\ state' = r.state
              /\ log' = r.log
    /\ UNCHANGED <<ringIn, ringOut, gen, chat, app>>

\* "Derive Shared Secret"
ComputeSharedSecret ==
    /\ deriveEnabled(state)
    /\ LET r == computeSharedSecret(state, log)
       IN  /\ Len(r.log) <= MaxLog
           /\ state' = r.state
           /\ log' = r.log
    /\ UNCHANGED <<ringIn, ringOut, gen, chat, app>>

\* the modulus <select>: onChange fires when another option is chosen
SelectModulus ==
    /\ \E value \in ModulusOptions \ {state.modulus} :
          state' = selectModulus(state, value)
    /\ UNCHANGED <<log, ringIn, ringOut, gen, chat, app>>

Next ==
    \/ GenerateKeys
    \/ PerformExchange
    \/ ComputeSharedSecret
    \/ SelectModulus

Spec == Init /\ [][Next]_vars

(***************************************************************************)
(* The arithmetic functions applied to bounded arguments.                  *)
(***************************************************************************)
CompVals == -1 .. MaxComp

Quaternions == { createQuaternion(w, x, y, z) : w \in CompVals, x \in CompVals,
                                                y \in CompVals, z \in CompVals }

\* second operands: 1, i, j, k and a quaternion with no zero component
SecondOperands ==
    { createQuaternion(1, 0, 0, 0), createQuaternion(0, 1, 0, 0),
      createQuaternion(0, 0, 1, 0), createQuaternion(0, 0, 0, 1),
      createQuaternion(2, -1, 3, 1) }

\* the third operand and the scalar of a call that takes none
NoOperand == createQuaternion(0, 0, 0, 0)

\* small arguments, exhaustively
SmallInputs == [q1 : Quaternions, q2 : SecondOperands, q3 : {NoOperand},
                n : {0}, m : 1 .. MaxModulus]

\* arguments of the size the session passes: the moduli of the <select> and
\* every candidate outcome of randomQuaternion under them
SessionInputs ==
    UNION { { [q1 |-> DrawList(m)[i], q2 |-> q2, q3 |-> NoOperand,
               n |-> 0, m |-> m] :
                  i \in 1 .. Len(DrawList(m)), q2 \in SecondOperands } :
            m \in ModulusOptions }

\* the basis units i, j, k
unitI == createQuaternion(0, 1, 0, 0)
unitJ == createQuaternion(0, 0, 1, 0)
unitK == createQuaternion(0, 0, 0, 1)

\* products of two basis units under the moduli of the <select>
UnitInputs == [q1 : {unitI, unitJ, unitK}, q2 : {unitI, unitJ, unitK},
               q3 : {NoOperand}, n : {0}, m : ModulusOptions]

\* three operands of a sum: components below, inside and above [0, m)
SumOperands == { createQuaternion(w, x, y, z) :
                     w \in {-1, 1, MaxComp}, x \in {-1, 1, MaxComp},
                     y \in {-1, 1, MaxComp}, z \in {-1, 1, MaxComp} }

SumInputs == [q1 : SumOperands, q2 : SecondOperands, q3 : SecondOperands,
              n : {0}, m : 1 .. MaxModulus]

\* scalars of both signs, several multiples of the modulus wide, and the
\* extreme values mulQ hands to mod under the moduli of the <select>
ScalarInputs ==
    [q1 : {NoOperand}, q2 : {NoOperand}, q3 : {NoOperand},
     n : -MaxScalar .. MaxScalar, m : (1 .. MaxModulus) \cup ModulusOptions]
    \cup
    { [q1 |-> NoOperand, q2 |-> NoOperand, q3 |-> NoOperand,
       n |-> s * 4 * (m - 1) * (m - 1), m |-> m] :
          s \in {-1, 1}, m \in ModulusOptions }

\* squared norms at the upper end of [0, m) and in its middle, as invQ hands
\* them to modInverse under the moduli of the <select>
NormInputs ==
    { [q1 |-> NoOperand, q2 |-> NoOperand, q3 |-> NoOperand,
       n |-> n, m |-> m] :
          n \in UNION { {m - 1, m - 2, (m - 1) \div 2, (m + 1) \div 2} :
                            m \in ModulusOptions },
          m \in ModulusOptions }

RingInit ==
    /\ state = INITIAL_STATE
    /\ log = <<>>
    /\ ringIn \in SmallInputs \cup SessionInputs \cup UnitInputs
                  \cup SumInputs \cup ScalarInputs \cup NormInputs
    /\ gen = GenIdle
    /\ chat = AILabUnmounted("")
    /\ app = AppShowing("SIMULATION")
    /\ ringOut = NotCalled

CallInvQ ==
    /\ ringOut.op = NotCalled.op
    /\ ringOut' = [op |-> "invQ", val |-> invQ(ringIn.q1, ringIn.m)]
    /\ UNCHANGED <<state, log, ringIn, gen, chat, app>>

CallMulQ ==
    /\ ringOut.op = NotCalled.op
    /\ ringOut' = [op |-> "mulQ", val |-> mulQ(ringIn.q1, ringIn.q2, ringIn.m)]
    /\ UNCHANGED <<state, log, ringIn, gen, chat, app>>

CallAddQ ==
    /\ ringOut.op = NotCalled.op
    /\ ringOut' = [op |-> "addQ", val |-> addQ(ringIn.q1, ringIn.q2, ringIn.m)]
    /\ UNCHANGED <<state, log, ringIn, gen, chat, app>>

CallMod ==
    /\ ringOut.op = NotCalled.op
    /\ ringOut' = [op |-> "mod", val |-> mod(ringIn.n, ringIn.m)]
    /\ UNCHANGED <<state, log, ringIn, gen, chat, app>>

CallModInverse ==
    /\ ringOut.op = NotCalled.op
    /\ ringIn.n > 0
    /\ ringIn.n < ringIn.m
    /\ ringOut' = [op |-> "modInverse", val |-> modInverse(ringIn.n, ringIn.m)]
    /\ UNCHANGED <<state, log, ringIn, gen, chat, app>>

RingNext ==
    \/ CallInvQ
    \/ CallMulQ
    \/ CallAddQ
    \/ CallMod
    \/ CallModInverse

SpecRing == RingInit /\ [][RingNext]_vars

(***************************************************************************)
(* generateKeys step by step: one action per draw and per test of a loop.  *)
(* The handler runs to completion, so no other handler runs between its    *)
(* steps.                                                                  *)
(***************************************************************************)
\* the session as mounted, or after a choice in the modulus <select>
GenInit ==
    /\ state \in {INITIAL_STATE}
                 \cup { selectModulus(INITIAL_STATE, value) :
                            value \in ModulusOptions }
    /\ log = <<>>
    /\ ringIn = RingIdle
    /\ ringOut = NotCalled
    /\ gen = GenIdle
    /\ chat = AILabUnmounted("")
    /\ app = AppShowing("SIMULATION")

\* what invQ returns on each outcome of randomQuaternion, for each modulus
\* the session can have: the test of the two loops
DrawInverse ==
    [m \in ModulusOptions |-> [q \in randomQuaternion(m) |-> invQ(q, m)]]

\* const mod = state.modulus; const base = randomQuaternion(mod);
\* let aliceSec = randomQuaternion(mod);
GenEnter(b, q) ==
    /\ gen.pc = "idle"
    /\ Len(log) < MaxRuns
    /\ b \in randomQuaternion(state.modulus)
    /\ q \in randomQuaternion(state.modulus)
    /\ gen' = [pc |-> "loopA", mod |-> state.modulus, base |-> b,
               aliceSec |-> q, bobSec |-> null]
    /\ UNCHANGED <<state, log, ringIn, ringOut, chat, app>>

\* while (!invQ(aliceSec, mod)) aliceSec = randomQuaternion(mod);
GenResampleA(q) ==
    /\ gen.pc = "loopA"
    /\ DrawInverse[gen.mod][gen.aliceSec] = null
    /\ q \in randomQuaternion(gen.mod)
    /\ gen' = [gen EXCEPT !.aliceSec = q]
    /\ UNCHANGED <<state, log, ringIn, ringOut, chat, app>>

\* the loop of aliceSec exits; let bobSec = randomQuaternion(mod);
GenExitA(q) ==
    /\ gen.pc = "loopA"
    /\ DrawInverse[gen.mod][gen.aliceSec] # null
    /\ q \in randomQuaternion(gen.mod)
    /\ gen' = [gen EXCEPT !.pc = "loopB", !.bobSec = q]
    /\ UNCHANGED <<state, log, ringIn, ringOut, chat, app>>

\* while (!invQ(bobSec, mod)) bobSec = randomQuaternion(mod);
GenResampleB(q) ==
    /\ gen.pc = "loopB"
    /\ DrawInverse[gen.mod][gen.bobSec] = null
    /\ q \in randomQuaternion(gen.mod)
    /\ gen' = [gen EXCEPT !.bobSec = q]
    /\ UNCHANGED <<state, log, ringIn, ringOut, chat, app>>

\* the loop of bobSec exits; setState and addLog
GenExitB ==
    /\ gen.pc = "loopB"
    /\ DrawInverse[gen.mod][gen.bobSec] # null
    /\ LET r == generateKeys(state, log, [base |-> gen.base,
                                          aliceSec |-> gen.aliceSec,
                                          bobSec |-> gen.bobSec])
       IN  /\ state' = r.state
           /\ log' = r.log
    /\ gen' = GenIdle
    /\ UNCHANGED <<ringIn, ringOut, chat, app>>

\* every candidate outcome of randomQuaternion
AllDraws == UNION { randomQuaternion(m) : m \in ModulusOptions }

GenNext ==
    \/ \E b \in AllDraws, q \in AllDraws : GenEnter(b, q)
    \/ \E q \in AllDraws : GenResampleA(q)
    \/ \E q \in AllDraws : GenExitA(q)
    \/ \E q \in AllDraws : GenResampleB(q)
    \/ GenExitB

SpecGen == GenInit /\ [][GenNext]_vars

\* fair sampling: no outcome of randomQuaternion is left out for ever while
\* a loop draws, and the handler, once called, runs on
FairSampling ==
    /\ \A q \in AllDraws : WF_vars(GenResampleA(q))
    /\ \A q \in AllDraws : WF_vars(GenResampleB(q))
    /\ WF_vars(\E q \in AllDraws : GenExitA(q))
    /\ WF_vars(GenExitB)

SpecGenFair == SpecGen /\ FairSampling

(***************************************************************************)
(* services/geminiService and components/AILab                             *)
(***************************************************************************)
FallbackError == "Error connecting to the research assistant. Please check your API configuration."
FallbackEmpty == "I could not generate a response."

\* process.env.API_KEY: absent (falsy) or set
ApiKeys == {"", "key"}

\* how ai.models.generateContent ends: with a text, with no text, or by
\* throwing; NotContacted when the function does not get that far
ServiceOutcomes ==
    { [kind |-> "text", text |-> "The QCSP asks for the conjugating quaternion."],
      [kind |-> "text", text |-> ""],
      [kind |-> "error", text |-> ""] }

NotContacted == [kind |-> "none", text |-> ""]

generateTutorResponseNoCatch(history, userMessage, apiKey, outcome) ==
    IF apiKey = "" \/ outcome.kind = "error"
    THEN [resolved |-> FALSE, text |-> ""]
    ELSE [resolved |-> TRUE,
          text |-> IF outcome.text = "" THEN FallbackEmpty ELSE outcome.text]

\* the promise generateTutorResponse returns, settled: every throw of the try
\* block ends in the catch block, which returns the fallback text
generateTutorResponse(history, userMessage, apiKey, outcome) ==
    IF apiKey = "" \/ outcome.kind = "error"
    THEN [resolved |-> TRUE, text |-> FallbackError]
    ELSE [resolved |-> TRUE,
          text |-> IF outcome.text = "" THEN FallbackEmpty ELSE outcome.text]

\* what the user can have typed
InputTexts == {"", "  ", "Why QCSP?", " How? "}

\* String.prototype.trim on InputTexts
trim(s) ==
    CASE s = "  "     -> ""
      [] s = " How? " -> "How?"
      [] OTHER        -> s

\* the Send button: disabled={loading || !input.trim()}
sendEnabled(c) == ~(c.loading \/ trim(c.input) = "")

handleSendWhileLoading(c) ==
    IF trim(c.input) = ""
    THEN c
    ELSE [c EXCEPT !.messages = Append(@, [role |-> "user", text |-> c.input]),
                   !.input = "",
                   !.loading = TRUE,
                   !.call = [at |-> "pending", history |-> c.messages,
                             userMessage |-> c.input],
                   !.requests = @ + 1]

\* handleSend up to its await
handleSend(c) ==
    IF trim(c.input) = "" \/ c.loading
    THEN c
    ELSE [c EXCEPT !.messages = Append(@, [role |-> "user", text |-> c.input]),
                   !.input = "",
                   !.loading = TRUE,
                   !.call = [at |-> "pending", history |-> c.messages,
                             userMessage |-> c.input],
                   !.requests = @ + 1]

\* handleSend after its await: a rejected promise throws there and ends the
\* handler, a resolved one hands over the text
handleSendResumed(c) ==
    IF c.call.result.resolved
    THEN [c EXCEPT !.messages = Append(@, [role |-> "model",
                                           text |-> c.call.result.text]),
                   !.loading = FALSE,
                   !.call = NoCall]
    ELSE [c EXCEPT !.call = NoCall]

ChatInit ==
    /\ state = Unmounted
    /\ log = <<>>
    /\ ringIn = RingIdle
    /\ ringOut = NotCalled
    /\ gen = GenIdle
    /\ chat \in { AILabInitial(apiKey) : apiKey \in ApiKeys }
    /\ app = AppShowing("AI_LAB")

\* onChange of the text field: setInput(e.target.value)
SetInput ==
    /\ \E value \in InputTexts \ {chat.input} :
          chat' = [chat EXCEPT !.input = value]
    /\ UNCHANGED <<state, log, ringIn, ringOut, gen, app>>

\* onClick of the Send button
HandleSend ==
    /\ sendEnabled(chat)
    /\ Len(chat.messages) + 2 <= MaxMessages
    /\ chat' = handleSend(chat)
    /\ UNCHANGED <<state, log, ringIn, ringOut, gen, app>>

\* onKeyDown of the text field with the Enter key: handleSend(), whatever the
\* Send button is
PressEnter ==
    /\ Len(chat.messages) + 2 <= MaxMessages
    /\ chat' = handleSend(chat)
    /\ UNCHANGED <<state, log, ringIn, ringOut, gen, app>>

\* the promise of generateTutorResponse settles
TutorSettles ==
    /\ chat.call.at = "pending"
    /\ \E outcome \in (IF chat.apiKey = "" THEN {NotContacted}
                                          ELSE ServiceOutcomes) :
          chat' = [chat EXCEPT !.call =
                      [at      |-> "settled",
                       outcome |-> outcome,
                       result  |-> generateTutorResponse(chat.call.history,
                                       chat.call.userMessage, chat.apiKey,
                                       outcome)],
                               !.requests = @ - 1]
    /\ UNCHANGED <<state, log, ringIn, ringOut, gen, app>>

\* handleSend runs on from its await
HandleSendResumes ==
    /\ chat.call.at = "settled"
    /\ chat' = handleSendResumed(chat)
    /\ UNCHANGED <<state, log, ringIn, ringOut, gen, app>>

ChatNext ==
    \/ SetInput
    \/ HandleSend
    \/ PressEnter
    \/ TutorSettles
    \/ HandleSendResumes

SpecChat == ChatInit /\ [][ChatNext]_vars

(***************************************************************************)
(* App: the tabs.  A component is mounted while renderContent returns it   *)
(* and its state lives from one mount to the next unmount.                 *)
(***************************************************************************)
\* the tabs that have a NavButton or a button of the dashboard
Tabs == {"DASHBOARD", "SIMULATION", "AI_LAB"}

renderContentKeepsSimulator(tab) ==
    CASE tab = "AI_LAB" -> "AILab"
      [] OTHER          -> "SimulationLab"

\* the component the switch of renderContent returns
renderContent(tab) ==
    CASE tab = "DASHBOARD"  -> "Dashboard"
      [] tab = "SIMULATION" -> "SimulationLab"
      [] tab = "AI_LAB"     -> "AILab"
      [] OTHER              -> "NotImplemented"

\* useState(INITIAL_STATE) and useState([]) of a SimulationLab being mounted
mountSimulationLab == [state |-> INITIAL_STATE, log |-> <<>>]

AppInit ==
    /\ app = [activeTab |-> "DASHBOARD",
              mounts |-> IF renderContent("DASHBOARD") = "SimulationLab"
                         THEN 1 ELSE 0]
    /\ state = IF renderContent("DASHBOARD") = "SimulationLab"
               THEN mountSimulationLab.state ELSE Unmounted
    /\ log = <<>>
    /\ chat \in { AILabUnmounted(apiKey) : apiKey \in ApiKeys }
    /\ ringIn = RingIdle
    /\ ringOut = NotCalled
    /\ gen = GenIdle

\* setActiveTab(tab) and the render that follows: the component of the old
\* tab is unmounted and the one of the new tab mounted, unless they are the
\* same component
SetActiveTab(tab) ==
    /\ tab # app.activeTab
    /\ LET old == renderContent(app.activeTab)
           new == renderContent(tab)
           mountsSimulator == new = "SimulationLab" /\ old # "SimulationLab"
       IN  /\ mountsSimulator => app.mounts < MaxMounts
           /\ app' = [activeTab |-> tab,
                      mounts |-> IF mountsSimulator THEN app.mounts + 1
                                                    ELSE app.mounts]
           /\ IF new = old
              THEN UNCHANGED <<state, log, chat>>
              ELSE /\ state' = IF new = "SimulationLab"
                               THEN mountSimulationLab.state ELSE Unmounted
                   /\ log' = IF new = "SimulationLab"
                             THEN mountSimulationLab.log ELSE <<>>
                   /\ chat' = IF new = "AILab"
                              THEN AILabInitial(chat.apiKey)
                              ELSE AILabUnmounted(chat.apiKey)
    /\ UNCHANGED <<ringIn, ringOut, gen>>

\* the handlers of the component that is mounted
SimulationLabStep ==
    /\ renderContent(app.activeTab) = "SimulationLab"
    /\ Next

AILabStep ==
    /\ renderContent(app.activeTab) = "AILab"
    /\ ChatNext

AppNext ==
    \/ \E tab \in Tabs : SetActiveTab(tab)
    \/ SimulationLabStep
    \/ AILabStep

SpecApp == AppInit /\ [][AppNext]_vars

(***************************************************************************)
(* Vocabulary of the properties.                                           *)
(***************************************************************************)
RECURSIVE GCD(_, _)
GCD(a, b) == IF b = 0 THEN a ELSE GCD(b, a % b)

IsPrime(n) == n > 1 /\ \A d \in 2 .. (n - 1) : n % d # 0

One == createQuaternion(1, 0, 0, 0)

Present(q) == q # null

\* the quaternions a session state stores
Stored(st) ==
    { q \in { st.baseP, st.aliceSecret, st.bobSecret, st.alicePublic,
              st.bobPublic, st.sharedSecretA, st.sharedSecretB } : Present(q) }

DerivedAbsent(st) ==
    /\ st.alicePublic = null
    /\ st.bobPublic = null
    /\ st.sharedSecretA = null
    /\ st.sharedSecretB = null

SecretsInvertible(st) ==
    /\ invQ(st.aliceSecret, st.modulus) # null
    /\ invQ(st.bobSecret, st.modulus) # null

\* a step in which generateKeys ran to its end: it is the one handler that
\* logs LogGenerated, and always as its last entry
GenerateKeysCompleted ==
    /\ log' # log
    /\ Head(log') = LogGenerated

\* a step of performExchange that published the public values
ExchangeSucceeded ==
    /\ state.alicePublic = null
    /\ state'.alicePublic # null

\* a step of computeSharedSecret that stored the shared values
DeriveSucceeded ==
    /\ state.sharedSecretA = null
    /\ state'.sharedSecretA # null

(***************************************************************************)
(* C1. invQ(q, m) is null whenever the squared norm of q modulo m is       *)
(* nonzero but shares a factor with m.  The code returns a quaternion      *)
(* there: modInverse never throws, so the catch of invQ never runs.        *)
(***************************************************************************)
C1_NonCoprimeNormAbsent ==
    ( /\ ringOut.op = "invQ"
      /\ normSqQ(ringIn.q1, ringIn.m) # 0
      /\ GCD(normSqQ(ringIn.q1, ringIn.m), ringIn.m) # 1 )
    => ringOut.val = null

(***************************************************************************)
(* C2. For a prime modulus m and q with components in [0, m) and nonzero   *)
(* squared norm, invQ(q, m) is defined and is a two-sided inverse of q.    *)
(***************************************************************************)
C2_InverseCorrect ==
    ( /\ ringOut.op = "invQ"
      /\ IsPrime(ringIn.m)
      /\ InRange(ringIn.q1, ringIn.m)
      /\ normSqQ(ringIn.q1, ringIn.m) # 0 )
    => /\ ringOut.val # null
       /\ mulQ(ringIn.q1, ringOut.val, ringIn.m) = One
       /\ mulQ(ringOut.val, ringIn.q1, ringIn.m) = One

\* invQ has returned the inverse of (1, 2, 3, 3) modulo 5, whose squared norm
\* is 3
C2_Witness ==
    /\ ringOut.op = "invQ"
    /\ ringIn.m = 5
    /\ ringIn.q1 = createQuaternion(1, 2, 3, 3)
    /\ ringOut.val = createQuaternion(2, 1, 4, 4)

C4_ComponentsInRange ==
    \A q \in Stored(state) : InRange(q, state.modulus)

(***************************************************************************)
(* C5. From the initial session (modulus 13, base (1,2,3,4), secrets       *)
(* (2,1,0,1) and (1,3,1,0)) the exchange publishes (1,5,4,1) and           *)
(* (1,4,10,11), and the derivation on these stores sharedA = (1,4,3,11)    *)
(* and sharedB = (1,10,2,4): both present, and different.                  *)
(***************************************************************************)
C5_InitialScenarioDisagrees ==
    [][ /\ (state = INITIAL_STATE /\ ExchangeSucceeded)
           => state' = [INITIAL_STATE EXCEPT
                            !.alicePublic = createQuaternion(1, 5, 4, 1),
                            !.bobPublic = createQuaternion(1, 4, 10, 11)]
        /\ ( /\ state = [INITIAL_STATE EXCEPT
                            !.alicePublic = createQuaternion(1, 5, 4, 1),
                            !.bobPublic = createQuaternion(1, 4, 10, 11)]
             /\ DeriveSucceeded )
           => /\ state'.sharedSecretA = createQuaternion(1, 4, 3, 11)
              /\ state'.sharedSecretB = createQuaternion(1, 10, 2, 4)
              /\ state'.sharedSecretA # state'.sharedSecretB
              /\ ~secretsMatch(state')
              /\ Head(log') = LogCheckNo ]_vars

\* the initial session after exchange and derive
C5_Witness ==
    /\ log = <<LogCheckNo, LogShared, LogExchanged>>
    /\ state.modulus = 13
    /\ state.baseP = INITIAL_STATE.baseP
    /\ state.aliceSecret = INITIAL_STATE.aliceSecret
    /\ state.bobSecret = INITIAL_STATE.bobSecret
    /\ state.alicePublic = createQuaternion(1, 5, 4, 1)
    /\ Present(state.sharedSecretA)
    /\ Present(state.sharedSecretB)

(***************************************************************************)
(* C6. A successful exchange stores publicA = (secretA * base) * secretA^-1 *)
(* and publicB = (secretB * base) * secretB^-1, on the secrets, base and   *)
(* modulus of the state it was invoked in.                                 *)
(***************************************************************************)
C6_PublicIsConjugateOfBase ==
    [][ ExchangeSucceeded
        => /\ state'.alicePublic =
                 mulQ(mulQ(state.aliceSecret, state.baseP, state.modulus),
                      invQ(state.aliceSecret, state.modulus), state.modulus)
           /\ state'.bobPublic =
                 mulQ(mulQ(state.bobSecret, state.baseP, state.modulus),
                      invQ(state.bobSecret, state.modulus), state.modulus) ]_vars

\* an exchange has just succeeded on sampled keys under modulus 251, with a
\* public value that is not the base
C6_Witness ==
    /\ log # <<>>
    /\ Head(log) = LogExchanged
    /\ state.modulus = 251
    /\ Present(state.alicePublic)
    /\ Present(state.bobPublic)
    /\ state.alicePublic # state.baseP

(***************************************************************************)
(* C7. A successful derivation stores sharedA = (secretA * publicB) *      *)
(* secretA^-1 and sharedB = (secretB * publicA) * secretB^-1: each party   *)
(* conjugates the other party's public value by its own secret.            *)
(***************************************************************************)
C7_SharedIsConjugateOfOtherPublic ==
    [][ DeriveSucceeded
        => /\ state'.sharedSecretA =
                 mulQ(mulQ(state.aliceSecret, state.bobPublic, state.modulus),
                      invQ(state.aliceSecret, state.modulus), state.modulus)
           /\ state'.sharedSecretB =
                 mulQ(mulQ(state.bobSecret, state.alicePublic, state.modulus),
                      invQ(state.bobSecret, state.modulus), state.modulus) ]_vars

\* a derivation has just stored shared values, on public values that differ
C7_Witness ==
    /\ log # <<>>
    /\ Head(log) \in {LogCheckYes, LogCheckNo}
    /\ Present(state.sharedSecretA)
    /\ Present(state.sharedSecretB)
    /\ state.alicePublic # state.bobPublic

(***************************************************************************)
(* C8. generateKeys, from whatever state it runs in, leaves publicA,       *)
(* publicB, sharedA and sharedB absent.                                    *)
(***************************************************************************)
C8_RegenerateClearsDerived ==
    [][ GenerateKeysCompleted => DerivedAbsent(state') ]_vars

\* generateKeys has run in a session that had derived its shared values
C8_Witness ==
    /\ Len(log) >= 2
    /\ log[1] = LogGenerated
    /\ log[2] \in {LogCheckYes, LogCheckNo}
    /\ DerivedAbsent(state)

(***************************************************************************)
(* C9. Whenever generateKeys completes, both secrets it stored have an     *)
(* inverse under the modulus of the session.                               *)
(***************************************************************************)
C9_GeneratedSecretsInvertible ==
    [][ GenerateKeysCompleted => SecretsInvertible(state') ]_vars

\* generateKeys has stored sampled secrets under modulus 1009
C9_Witness ==
    /\ log # <<>>
    /\ Head(log) = LogGenerated
    /\ state.modulus = 1009
    /\ state.aliceSecret = createQuaternion(3, 1008, 1008, 1008)
    /\ invQ(state.aliceSecret, state.modulus) # null

(***************************************************************************)
(* C10. In every reachable state in which the exchange or the derivation   *)
(* can be invoked, both stored secrets have an inverse under the current   *)
(* modulus.  Selecting a modulus keeps the secrets sampled under another.  *)
(***************************************************************************)
C10_SecretsAlwaysInvertible ==
    (exchangeEnabled(state) \/ deriveEnabled(state))
    => SecretsInvertible(state)

(***************************************************************************)
(* C11. Once publicA and publicB are present no exchange changes them:     *)
(* the Exchange button is disabled, so they keep the values of the first   *)
(* exchange in every step except a completed generateKeys.                 *)
(***************************************************************************)
C11_PublicValuesKept ==
    [][ (Present(state.alicePublic) /\ Present(state.bobPublic)
         /\ ~GenerateKeysCompleted)
        => /\ state'.alicePublic = state.alicePublic
           /\ state'.bobPublic = state.bobPublic ]_vars

\* public values are present under a modulus for which performExchange would
\* compute other ones, and the Exchange button is disabled
C11_Witness ==
    /\ Present(state.alicePublic)
    /\ Present(state.bobPublic)
    /\ ~exchangeEnabled(state)
    /\ SecretsInvertible(state)
    /\ performExchange(state, log, NotSampled).state.alicePublic
           # state.alicePublic

(***************************************************************************)
(* C12. While publicA or publicB is absent the derivation computes         *)
(* nothing: sharedA and sharedB are absent, the Derive button is disabled, *)
(* and computeSharedSecret returns leaving state and log as they are.      *)
(***************************************************************************)
C12_DeriveNeedsPublicValues ==
    (state.alicePublic = null \/ state.bobPublic = null)
    => /\ ~deriveEnabled(state)
       /\ state.sharedSecretA = null
       /\ state.sharedSecretB = null
       /\ computeSharedSecret(state, log) = [state |-> state, log |-> log]

\* no public values, after a generateKeys that stored invertible secrets:
\* only the check of the public values keeps the derivation from computing
C12_Witness ==
    /\ state.alicePublic = null
    /\ state.bobPublic = null
    /\ log # <<>>
    /\ Head(log) = LogGenerated
    /\ SecretsInvertible(state)

(***************************************************************************)
(* C13. The phase only moves forward except through generateKeys: publicA  *)
(* is present iff publicB is, sharedA is present iff sharedB is, sharedA   *)
(* present implies publicA present, and no step other than a completed     *)
(* generateKeys makes a present derived field absent.                      *)
(***************************************************************************)
C13_PhaseMovesForward ==
    /\ [](Present(state.alicePublic) <=> Present(state.bobPublic))
    /\ [](Present(state.sharedSecretA) <=> Present(state.sharedSecretB))
    /\ [](Present(state.sharedSecretA) => Present(state.alicePublic))
    /\ [][ ~GenerateKeysCompleted
           => /\ Present(state.alicePublic) => Present(state'.alicePublic)
              /\ Present(state.bobPublic) => Present(state'.bobPublic)
              /\ Present(state.sharedSecretA) => Present(state'.sharedSecretA)
              /\ Present(state.sharedSecretB) => Present(state'.sharedSecretB)
       ]_vars

\* the last phase, kept across a change of the modulus
C13_Witness ==
    /\ Present(state.alicePublic)
    /\ Present(state.bobPublic)
    /\ Present(state.sharedSecretA)
    /\ Present(state.sharedSecretB)
    /\ state.modulus # 13
    /\ log = <<LogCheckNo, LogShared, LogExchanged>>

(***************************************************************************)
(* C14. For every positive modulus m and every quaternion q whose squared  *)
(* norm reduces to 0 modulo m, the all-zero quaternion among them, invQ    *)
(* returns null.                                                           *)
(***************************************************************************)
C14_ZeroNormAbsent ==
    ( /\ ringOut.op = "invQ"
      /\ ringIn.m > 0
      /\ \/ normSqQ(ringIn.q1, ringIn.m) = 0
         \/ ringIn.q1 = createQuaternion(0, 0, 0, 0) )
    => ringOut.val = null

\* a quaternion that is not zero and whose squared norm 5 reduces to 0
C14_Witness ==
    /\ ringOut.op = "invQ"
    /\ ringIn.m = 5
    /\ ringIn.q1 = createQuaternion(1, 2, 0, 0)
    /\ ringOut.val = null

(***************************************************************************)
(* C15. mulQ returns exactly the Hamilton product                          *)
(*   w = w1w2 - x1x2 - y1y2 - z1z2,   x = w1x2 + x1w2 + y1z2 - z1y2,       *)
(*   y = w1y2 - x1z2 + y1w2 + z1x2,   z = w1z2 + x1y2 - y1x2 + z1w2,       *)
(* each component reduced into [0, m), for integer components of either    *)
(* sign and every positive m.                                              *)
(***************************************************************************)
C15_HamiltonProduct ==
    ( ringOut.op = "mulQ" /\ ringIn.m > 0 )
    => LET a == ringIn.q1
           b == ringIn.q2
           m == ringIn.m
       IN  /\ ringOut.val.w = (a.w * b.w - a.x * b.x - a.y * b.y - a.z * b.z) % m
           /\ ringOut.val.x = (a.w * b.x + a.x * b.w + a.y * b.z - a.z * b.y) % m
           /\ ringOut.val.y = (a.w * b.y - a.x * b.z + a.y * b.w + a.z * b.x) % m
           /\ ringOut.val.z = (a.w * b.z + a.x * b.y - a.y * b.x + a.z * b.w) % m
           /\ \A c \in {ringOut.val.w, ringOut.val.x, ringOut.val.y, ringOut.val.z} :
                  0 <= c /\ c < m

\* a product whose four components all have negative terms
C15_Witness ==
    /\ ringOut.op = "mulQ"
    /\ ringIn.m = 7
    /\ ringIn.q1 = createQuaternion(1, 2, 3, 4)
    /\ ringIn.q2 = createQuaternion(2, -1, 3, 1)
    /\ ringOut.val = createQuaternion(5, 1, 3, 4)

(***************************************************************************)
(* C16. Multiplication does not commute on the basis units: for every      *)
(* modulus m > 2, mulQ(i, j, m) = k and mulQ(j, i, m) = (0, 0, 0,          *)
(* mod(-1, m)), and the two products differ.                               *)
(***************************************************************************)
C16_UnitsDoNotCommute ==
    ( ringOut.op = "mulQ" /\ ringIn.m > 2 )
    => /\ (ringIn.q1 = unitI /\ ringIn.q2 = unitJ)
          => /\ ringOut.val = unitK
             /\ ringOut.val # mulQ(unitJ, unitI, ringIn.m)
       /\ (ringIn.q1 = unitJ /\ ringIn.q2 = unitI)
          => /\ ringOut.val = createQuaternion(0, 0, 0, mod(-1, ringIn.m))
             /\ ringOut.val = createQuaternion(0, 0, 0, ringIn.m - 1)
             /\ ringOut.val # unitK

\* j times i under the smallest modulus the claim covers
C16_Witness ==
    /\ ringOut.op = "mulQ"
    /\ ringIn.m = 3
    /\ ringIn.q1 = unitJ
    /\ ringIn.q2 = unitI
    /\ ringOut.val = createQuaternion(0, 0, 0, 2)

(***************************************************************************)
(* C18. For every integer a, negative, zero or positive, and every         *)
(* positive m, mod(a, m) lies in 0 .. m - 1 and is congruent to a modulo   *)
(* m.                                                                      *)
(***************************************************************************)
C18_ModReduces ==
    ( ringOut.op = "mod" /\ ringIn.m > 0 )
    => /\ 0 <= ringOut.val
       /\ ringOut.val < ringIn.m
       /\ (ringIn.n - ringOut.val) % ringIn.m = 0

\* a negative scalar more than one modulus below zero
C18_Witness ==
    /\ ringOut.op = "mod"
    /\ ringIn.n = -8
    /\ ringIn.m = 5
    /\ ringOut.val = 2

(***************************************************************************)
(* C19. For all quaternions q1, q2, q3 and every positive modulus m, addQ  *)
(* is commutative and associative modulo m:                                *)
(*   addQ(q1, q2, m) = addQ(q2, q1, m) and                                 *)
(*   addQ(addQ(q1, q2, m), q3, m) = addQ(q1, addQ(q2, q3, m), m).          *)
(***************************************************************************)
C19_AddCommutesAssociates ==
    ( ringOut.op = "addQ" /\ ringIn.m > 0 )
    => /\ ringOut.val = addQ(ringIn.q2, ringIn.q1, ringIn.m)
       /\ addQ(ringOut.val, ringIn.q3, ringIn.m)
              = addQ(ringIn.q1, addQ(ringIn.q2, ringIn.q3, ringIn.m), ringIn.m)

\* three operands with negative components whose sums leave [0, m)
C19_Witness ==
    /\ ringOut.op = "addQ"
    /\ ringIn.m = 3
    /\ ringIn.q1 = createQuaternion(1, 1, -1, -1)
    /\ ringIn.q2 = createQuaternion(2, -1, 3, 1)
    /\ ringIn.q3 = createQuaternion(2, -1, 3, 1)
    /\ ringOut.val = createQuaternion(0, 0, 2, 0)

(***************************************************************************)
(* C17. For a prime modulus each resampling loop of generateKeys, the one  *)
(* of aliceSec and the one of bobSec, terminates when sampling is fair: an *)
(* invertible quaternion is among the outcomes of randomQuaternion, and    *)
(* the loop exits as soon as one is drawn.                                 *)
(***************************************************************************)
PrimeModuli == { m \in ModulusOptions : IsPrime(m) }

InvertibleDraws ==
    [m \in ModulusOptions |->
        { q \in randomQuaternion(m) : DrawInverse[m][q] # null }]

C17_LoopsTerminate ==
    /\ (gen.pc = "loopA" /\ gen.mod \in PrimeModuli) ~> (gen.pc # "loopA")
    /\ (gen.pc = "loopB" /\ gen.mod \in PrimeModuli) ~> (gen.pc # "loopB")
    /\ []( (gen.pc # "idle" /\ gen.mod \in PrimeModuli)
           => InvertibleDraws[gen.mod] # {} )
    /\ [][ /\ ( gen.pc = "loopA" /\ gen.mod \in PrimeModuli
                /\ DrawInverse[gen.mod][gen.aliceSec] # null )
              => gen'.pc = "loopB" /\ gen'.aliceSec = gen.aliceSec
           /\ ( gen.pc = "loopB" /\ gen.mod \in PrimeModuli
                /\ DrawInverse[gen.mod][gen.bobSec] # null )
              => gen'.pc = "idle" /\ state'.bobSecret = gen.bobSec
       ]_vars

\* the loop of aliceSec has exited and the loop of bobSec must draw again
C17_Witness ==
    /\ gen.pc = "loopB"
    /\ gen.mod \in PrimeModuli
    /\ DrawInverse[gen.mod][gen.aliceSec] # null
    /\ DrawInverse[gen.mod][gen.bobSec] = null

(***************************************************************************)
(* C20. generateTutorResponse never fails towards its caller: without an   *)
(* API key, or when the service throws, its promise resolves to a          *)
(* non-empty English fallback text, and it resolves to a non-empty text in *)
(* every other case; so handleSend, once the call has settled, appends the *)
(* answer and ends the loading state.                                      *)
(***************************************************************************)
C20_TutorNeverFails ==
    /\ []( chat.call.at = "settled"
           => /\ chat.call.result.resolved
              /\ chat.call.result.text # ""
              /\ (chat.apiKey = "" \/ chat.call.outcome.kind = "error")
                 => chat.call.result.text = FallbackError
              /\ (chat.apiKey # "" /\ chat.call.outcome.kind = "text"
                  /\ chat.call.outcome.text = "")
                 => chat.call.result.text = FallbackEmpty )
    /\ [](chat.loading <=> chat.call.at # "none")
    /\ [][ chat.call.at = "settled" /\ chat'.call.at # "settled"
           => /\ ~chat'.loading
              /\ chat'.messages
                     = Append(chat.messages,
                              [role |-> "model", text |-> chat.call.result.text])
       ]_vars

\* a question asked without an API key has been answered by the fallback
\* text and the chat is no longer loading
C20_Witness ==
    /\ chat.apiKey = ""
    /\ ~chat.loading
    /\ chat.call = NoCall
    /\ Len(chat.messages) = 3
    /\ chat.messages[2].role = "user"
    /\ chat.messages[3] = [role |-> "model", text |-> FallbackError]

(***************************************************************************)
(* C21. Whenever publicA and publicB are present and sharedA and sharedB   *)
(* are absent, computeSharedSecret produces a state in which sharedA and   *)
(* sharedB are both present.  After the modulus <select> a stored secret   *)
(* can have no inverse under the current modulus, and computeSharedSecret  *)
(* then returns without storing or logging anything.                       *)
(***************************************************************************)
C21_DeriveProducesShared ==
    ( /\ Present(state.alicePublic)
      /\ Present(state.bobPublic)
      /\ state.sharedSecretA = null
      /\ state.sharedSecretB = null )
    => /\ deriveEnabled(state)
       /\ Present(computeSharedSecret(state, log).state.sharedSecretA)
       /\ Present(computeSharedSecret(state, log).state.sharedSecretB)

(***************************************************************************)
(* C22. In every reachable state each present derived value is consistent  *)
(* with the current modulus: publicA = secretA * base * secretA^-1,        *)
(* publicB = secretB * base * secretB^-1, sharedA = secretA * publicB *    *)
(* secretA^-1 and sharedB = secretB * publicA * secretB^-1, all evaluated  *)
(* modulo state.modulus.  The modulus <select> keeps the derived values    *)
(* computed under the modulus it replaces.                                 *)
(***************************************************************************)
C22_DerivedConsistentWithModulus ==
    LET m    == state.modulus
        aInv == invQ(state.aliceSecret, m)
        bInv == invQ(state.bobSecret, m)
    IN  /\ Present(state.alicePublic)
           => /\ aInv # null
              /\ state.alicePublic
                     = mulQ(mulQ(state.aliceSecret, state.baseP, m), aInv, m)
        /\ Present(state.bobPublic)
           => /\ bInv # null
              /\ state.bobPublic
                     = mulQ(mulQ(state.bobSecret, state.baseP, m), bInv, m)
        /\ Present(state.sharedSecretA)
           => /\ aInv # null
              /\ state.sharedSecretA
                     = mulQ(mulQ(state.aliceSecret, state.bobPublic, m), aInv, m)
        /\ Present(state.sharedSecretB)
           => /\ bInv # null
              /\ state.sharedSecretB
                     = mulQ(mulQ(state.bobSecret, state.alicePublic, m), bInv, m)

\* the public values of st are the ones performExchange computes under the
\* modulus st has now: the exchange was made under this modulus
ExchangedUnderModulus(st) ==
    /\ Present(st.alicePublic)
    /\ Present(st.bobPublic)
    /\ SecretsInvertible(st)
    /\ st.alicePublic = mulQ(mulQ(st.aliceSecret, st.baseP, st.modulus),
                             invQ(st.aliceSecret, st.modulus), st.modulus)
    /\ st.bobPublic = mulQ(mulQ(st.bobSecret, st.baseP, st.modulus),
                           invQ(st.bobSecret, st.modulus), st.modulus)

(***************************************************************************)
(* C23. For a prime modulus m, invertible secrets A and B and a base G     *)
(* with components in [0, m), exchange and derivation under m store        *)
(* sharedA = (AB) * G * (AB)^-1 and sharedB = (BA) * G * (BA)^-1, where    *)
(* AB = mulQ(A, B, m) and BA = mulQ(B, A, m).                              *)
(***************************************************************************)
C23_SharedIsConjugateByProducts ==
    [][ ( /\ DeriveSucceeded
          /\ state.modulus \in PrimeModuli
          /\ InRange(state.baseP, state.modulus)
          /\ ExchangedUnderModulus(state) )
        => LET m  == state.modulus
               AB == mulQ(state.aliceSecret, state.bobSecret, m)
               BA == mulQ(state.bobSecret, state.aliceSecret, m)
           IN  /\ invQ(AB, m) # null
               /\ invQ(BA, m) # null
               /\ state'.sharedSecretA
                      = mulQ(mulQ(AB, state.baseP, m), invQ(AB, m), m)
               /\ state'.sharedSecretB
                      = mulQ(mulQ(BA, state.baseP, m), invQ(BA, m), m) ]_vars

\* shared values derived under 251 from secrets that do not commute
C23_Witness ==
    /\ state.modulus = 251
    /\ InRange(state.baseP, state.modulus)
    /\ ExchangedUnderModulus(state)
    /\ Present(state.sharedSecretA)
    /\ Present(state.sharedSecretB)
    /\ mulQ(state.aliceSecret, state.bobSecret, state.modulus)
           # mulQ(state.bobSecret, state.aliceSecret, state.modulus)
    /\ state.sharedSecretA # state.sharedSecretB
    /\ Head(log) = LogCheckNo

(***************************************************************************)
(* C24. For every modulus m > 0 and every integer a with 0 < a < m and     *)
(* gcd(a, m) = 1, modInverse(a, m) returns the one s of [0, m) with        *)
(* a * s congruent to 1 modulo m, also when the Bezout coefficient its     *)
(* loop ends with is negative.                                             *)
(***************************************************************************)
C24_ModInverseCorrect ==
    ( /\ ringOut.op = "modInverse"
      /\ ringIn.m > 0
      /\ 0 < ringIn.n
      /\ ringIn.n < ringIn.m
      /\ GCD(ringIn.n, ringIn.m) = 1 )
    => /\ ringOut.val \in 0 .. (ringIn.m - 1)
       /\ (ringIn.n * ringOut.val) % ringIn.m = 1
       /\ \A s \in 0 .. (ringIn.m - 1) :
              (ringIn.n * s) % ringIn.m = 1 => s = ringOut.val

\* the loop ends with the Bezout coefficient -2, which is returned as 5
C24_Witness ==
    /\ ringOut.op = "modInverse"
    /\ ringIn.n = 3
    /\ ringIn.m = 7
    /\ modInverseLoop(3, 7, 1, 0, 0, 1) = -2
    /\ ringOut.val = 5

(***************************************************************************)
(* C26. Conjugation keeps the scalar part and the squared norm: right      *)
(* after a successful exchange under a prime modulus m, and right after a  *)
(* successful derivation on public values exchanged under m, the w of      *)
(* publicA, publicB, sharedA and sharedB is mod(base.w, m) and the squared *)
(* norm of each of them is normSqQ(base, m).                               *)
(***************************************************************************)
KeepsScalarAndNorm(q, st) ==
    /\ q.w = mod(st.baseP.w, st.modulus)
    /\ normSqQ(q, st.modulus) = normSqQ(st.baseP, st.modulus)

C26_ScalarPartAndNormKept ==
    [][ /\ (ExchangeSucceeded /\ state.modulus \in PrimeModuli)
           => /\ KeepsScalarAndNorm(state'.alicePublic, state)
              /\ KeepsScalarAndNorm(state'.bobPublic, state)
        /\ ( /\ DeriveSucceeded
             /\ state.modulus \in PrimeModuli
             /\ ExchangedUnderModulus(state) )
           => /\ KeepsScalarAndNorm(state'.alicePublic, state)
              /\ KeepsScalarAndNorm(state'.bobPublic, state)
              /\ KeepsScalarAndNorm(state'.sharedSecretA, state)
              /\ KeepsScalarAndNorm(state'.sharedSecretB, state) ]_vars

\* exchange and derivation under 1009 on a sampled base that the four
\* conjugations all change
C26_Witness ==
    /\ state.modulus = 1009
    /\ state.baseP = createQuaternion(3, 1008, 1008, 1008)
    /\ ExchangedUnderModulus(state)
    /\ Present(state.sharedSecretA)
    /\ Present(state.sharedSecretB)
    /\ state.baseP \notin { state.alicePublic, state.bobPublic,
                            state.sharedSecretA, state.sharedSecretB }
    /\ state.sharedSecretA.w = 3

(***************************************************************************)
(* C27. Agreement in the commuting cases: for a prime modulus m and        *)
(* invertible secrets with mulQ(secretA, secretB, m) = mulQ(secretB,       *)
(* secretA, m), equal secrets and a secret with x = y = z = 0 among them,  *)
(* exchange followed by derivation stores sharedA = sharedB, and the       *)
(* match indicator and the log report the match.                           *)
(***************************************************************************)
C27_CommutingSecretsAgree ==
    [][ ( /\ DeriveSucceeded
          /\ state.modulus \in PrimeModuli
          /\ ExchangedUnderModulus(state)
          /\ mulQ(state.aliceSecret, state.bobSecret, state.modulus)
                 = mulQ(state.bobSecret, state.aliceSecret, state.modulus) )
        => /\ state'.sharedSecretA = state'.sharedSecretB
           /\ secretsMatch(state')
           /\ Head(log') = LogCheckYes ]_vars

\* both parties drew the same secret, which is no scalar, and agree on a
\* value that is not the base
C27_Witness ==
    /\ state.aliceSecret = state.bobSecret
    /\ state.aliceSecret = createQuaternion(2, 1, 0, 1)
    /\ ExchangedUnderModulus(state)
    /\ secretsMatch(state)
    /\ state.sharedSecretA # state.baseP
    /\ Head(log) = LogCheckYes

(***************************************************************************)
(* C28. Frame conditions: a successful exchange changes only publicA and   *)
(* publicB, a successful derivation only sharedA and sharedB, a choice in  *)
(* the modulus <select> only modulus; none of the three changes base,      *)
(* secretA or secretB.                                                     *)
(***************************************************************************)
C28_FrameConditions ==
    [][ /\ ExchangeSucceeded
           => state' = [state EXCEPT !.alicePublic = state'.alicePublic,
                                     !.bobPublic = state'.bobPublic]
        /\ DeriveSucceeded
           => state' = [state EXCEPT !.sharedSecretA = state'.sharedSecretA,
                                     !.sharedSecretB = state'.sharedSecretB]
        /\ state'.modulus # state.modulus
           => /\ state' = [state EXCEPT !.modulus = state'.modulus]
              /\ log' = log ]_vars

\* the initial keys after exchange under 13, the choice of 251 and the
\* derivation under 251
C28_Witness ==
    /\ state.modulus = 251
    /\ state.baseP = INITIAL_STATE.baseP
    /\ state.aliceSecret = INITIAL_STATE.aliceSecret
    /\ state.bobSecret = INITIAL_STATE.bobSecret
    /\ state.alicePublic = createQuaternion(1, 5, 4, 1)
    /\ state.bobPublic = createQuaternion(1, 4, 10, 11)
    /\ Present(state.sharedSecretA)
    /\ Present(state.sharedSecretB)
    /\ log = <<LogCheckNo, LogShared, LogExchanged>>

(***************************************************************************)
(* C29. In the chat a send is ignored while a response is pending, so at   *)
(* most one call of the service is in flight at any time, and every        *)
(* accepted send appends one user message, followed later by one model     *)
(* message: after the welcome message the transcript alternates user,      *)
(* model, user, model.                                                     *)
(***************************************************************************)
Alternates(messages) ==
    /\ messages[1].role = "model"
    /\ \A i \in 2 .. Len(messages) :
           messages[i].role = (IF i % 2 = 0 THEN "user" ELSE "model")

C29_OneRequestAlternating ==
    /\ [](chat.requests <= 1)
    /\ []( chat.loading
           => /\ ~sendEnabled(chat)
              /\ \A value \in InputTexts :
                     handleSend([chat EXCEPT !.input = value])
                         = [chat EXCEPT !.input = value] )
    /\ [](Alternates(chat.messages))
    /\ [](chat.loading <=> Len(chat.messages) % 2 = 0)
    /\ [][ chat'.messages # chat.messages
           => chat'.messages
                  = Append(chat.messages,
                           [role |-> (IF chat.loading THEN "model" ELSE "user"),
                            text |-> chat'.messages[Len(chat'.messages)].text])
       ]_vars

\* the second question is pending and the user has typed a third one: the
\* Enter key calls handleSend, which ignores it
C29_Witness ==
    /\ chat.loading
    /\ chat.requests = 1
    /\ Len(chat.messages) = 4
    /\ chat.messages[4].role = "user"
    /\ trim(chat.input) # ""
    /\ handleSend(chat) = chat

\* C25: a session that has just been created (its SimulationLab has just been
\* mounted) has modulus 13, its base, secretA and secretB populated, publicA,
\* publicB, sharedA and sharedB all absent, and both secrets invertible
\* modulo 13, so it is already in the phase after parameter generation.
C25_NewSessionStartsGenerated ==
    /\ [][(state = Unmounted /\ state' # Unmounted) =>
            /\ state'.modulus = 13
            /\ Present(state'.baseP)
            /\ Present(state'.aliceSecret)
            /\ Present(state'.bobSecret)
            /\ DerivedAbsent(state')
            /\ invQ(state'.aliceSecret, 13) # null
            /\ invQ(state'.bobSecret, 13) # null]_vars
    /\ [](app.mounts = 0 => state = Unmounted)

C25_Witness ==
    /\ app.activeTab = "SIMULATION"
    /\ app.mounts = 1
    /\ state # Unmounted
    /\ log = <<>>
    /\ DerivedAbsent(state)
    /\ exchangeEnabled(state)

\* C30: the session does not survive leaving the simulator view: a step that
\* leaves it drops the session, whatever it had reached, and a step that
\* returns to it starts from the initial state again, with modulus 13, the
\* fixed base and secrets, the four derived fields absent and an empty log.
C30_SessionResetOnReturn ==
    /\ [][(app.activeTab = "SIMULATION" /\ app'.activeTab # "SIMULATION") =>
            (state' = Unmounted /\ log' = <<>>)]_vars
    /\ [][(app.activeTab # "SIMULATION" /\ app'.activeTab = "SIMULATION") =>
            /\ state' = INITIAL_STATE
            /\ state'.modulus = 13
            /\ DerivedAbsent(state')
            /\ log' = <<>>]_vars

C30_Witness ==
    /\ app.activeTab = "SIMULATION"
    /\ app.mounts = 2
    /\ state = INITIAL_STATE
    /\ log = <<>>

====
